---- MODULE Spec2Model ----
(***************************************************************************)
(* State-machine model of the baby-monitor streaming engine:               *)
(*   audio_analysis/consumers.py  BabyMonitorConsumer (one instance per    *)
(*                                WebSocket connection)                    *)
(*   audio_analysis/ml_model.py   AudioAnalyzer.predict and its decoders   *)
(* The channel layer is modelled as one FIFO queue per connection plus a   *)
(* group table; a consumer handles one message at a time, so a handler     *)
(* is one action except handle_audio_chunk, which is split at its await    *)
(* of the worker thread.                                                   *)
(***************************************************************************)
EXTENDS Integers, Sequences, FiniteSets, TLC

\* ------------------------------------------------------------- bounds --
MaxChunks == 2          \* chunks a connection hands to the pipeline per start
MaxInbox  == 1          \* channel-layer messages pending per connection
MaxClock  == 1          \* last clock second (int(time.time())) modelled
Samples   == 2          \* samples of a normalised waveform (16000, scaled down)
MaxWave   == 3          \* longest decoded waveform, in samples
MaxSent   == 3          \* frames a client has sent that wait for receive()
MaxRecords == 3         \* SensorData rows after which no new call is made

Conn     == {"c1", "c2", "c3"}          \* consumer instances
Subjects == {"b1", "b2"}                \* baby_id values of the URL route
Params   == {"type=recorder", "type=dashboard"}
Queries  == SUBSET Params               \* query string, as the parameters in it

None   == "None"        \* Python None
NoFile == "absent"      \* no file at a path
Absent == -1            \* a number key missing from an event dict

\* byte buffers a client may send as a binary frame
\*   empty : b''                      webm : decodable by librosa
\*   wav   : only scipy.io.wavfile reads it
\*   junk  : no decoder reads it      odd  : decodes, the model call raises
Buffers == {"empty", "webm", "wav", "junk", "odd"}

\* text frames a client may send
\*   bogus : {"type": "bogus"}   notype : {}   list : []   malformed : not JSON
Texts == {"", "start_recording", "stop_recording", "ping", "request_status",
          "bogus", "notype", "list", "malformed"}

Paths == Subjects \X (0..MaxClock)

VARIABLES
    conn_state,     \* "init" (constructed), "open" (accepted), "closed"
    baby_id,        \* self.baby_id
    client_type,    \* self.client_type
    is_recording,   \* self.is_recording
    chunk_count,    \* self.chunk_count
    pc,             \* position inside handle_audio_chunk: idle/await/ready
    job,            \* locals of the running handle_audio_chunk
    groups,         \* channel layer: group (per baby_id) -> member channels
    inbox,          \* channel layer: per channel queue of group messages
    files,          \* temp directory: path -> bytes
    clock,          \* int(time.time())
    model,          \* analyzer.model: "loaded" or None
    classified,     \* history: successful classifications since the last start
    returned,       \* history: pipeline calls that returned since the last start
    session,        \* history: per subject, the flag and count its commands
                    \*          and chunks would give one shared Session
    last,           \* history: the step taken last, its input and its output
    decode,         \* one run of preprocess_audio: the file, the tier to try
                    \*          next, the tiers tried, the result
    wire,           \* per connection: the frames its client has sent that
                    \*          receive() has not been given yet
    worker,         \* the connection whose predict() the sync thread runs
    db,             \* AudioSession and SensorData rows of one baby
    requests        \* analyze_audio calls under way: position and locals

\* the state of the WebSocket consumers and of the channel layer
consumers == <<conn_state, baby_id, client_type, is_recording, chunk_count, pc,
               job, groups, inbox, files, clock, model, classified, returned,
               session, last>>

\* the state outside the WebSocket consumers
aux == <<decode, wire, worker, db, requests>>

vars == <<conn_state, baby_id, client_type, is_recording, chunk_count, pc, job,
          groups, inbox, files, clock, model, classified, returned, session,
          last, decode, wire, worker, db, requests>>

\* ------------------------------------------------------- wire payloads --
\* one record shape for channel-layer messages and WebSocket frames
Msg(type, baby, status, n, client, ch, cls) ==
    [type |-> type, baby |-> baby, status |-> status, n |-> n,
     client |-> client, ch |-> ch, cls |-> cls]

NoPath == <<None, 0>>

\* the step taken last: entry point, connection, the frame it was given
\* (text or bytes), the environment's answer to its I/O, the frames written
\* to the connection's own socket, the messages handed to group_send, and
\* the connection's flag and counter before the step
Last(op, c, text, bytes, io, frames, bcast) ==
    [op |-> op, conn |-> c, text |-> text, bytes |-> bytes, io |-> io,
     frames |-> frames, bcast |-> bcast,
     was |-> IF c \in Conn
             THEN [rec |-> is_recording[c], cnt |-> chunk_count[c]]
             ELSE [rec |-> FALSE, cnt |-> 0]]

\* ------------------------------------------------ classification (pure) --
class_names == <<"cry", "hungry", "laugh", "noise", "silence">>

\* librosa.load succeeds on these file contents
LibrosaLoads(content) == content \in {"webm", "odd"}

\* scipy.io.wavfile.read succeeds on these file contents
WavfileReads(content) == content \in {"wav"}

\* raw output of the model for a decoded buffer, one score per class
Scores(content) ==
    CASE content = "webm" -> <<3, 1, 0, 2, 0>>
      [] content = "wav"  -> <<0, 1, 0, 4, 4>>
      [] OTHER            -> <<0, 0, 0, 0, 0>>

\* the model call raises on this input
ModelRaises(content) == content = "odd"

\* a spectrogram, as the tier that produced it and the bytes it came from
Spectrogram(tier, content) == [tier |-> tier, src |-> content]

\* the None a decoder returns when it fails
NoSpectrogram == Spectrogram(0, None)

preprocess_audio_with_librosa(content) ==
    IF LibrosaLoads(content) THEN Spectrogram(1, content) ELSE NoSpectrogram

convert_to_pcm_wav(content) == LibrosaLoads(content)

preprocess_audio_tensorflow(content) ==
    IF convert_to_pcm_wav(content) THEN Spectrogram(2, content)
    ELSE NoSpectrogram

preprocess_audio(content) ==
    IF preprocess_audio_with_librosa(content) # NoSpectrogram
    THEN preprocess_audio_with_librosa(content)
    ELSE IF preprocess_audio_tensorflow(content) # NoSpectrogram
    THEN preprocess_audio_tensorflow(content)
    ELSE IF WavfileReads(content) THEN Spectrogram(3, content)
    ELSE NoSpectrogram

\* 2^n
RECURSIVE Pow2(_)
Pow2(n) == IF n = 0 THEN 1 ELSE 2 * Pow2(n - 1)

\* the sum of a sequence of numbers
RECURSIVE Sum(_)
Sum(v) == IF v = <<>> THEN 0 ELSE Head(v) + Sum(Tail(v))

\* tf.nn.softmax, base 2 and in thousandths: each weight over the sum of
\* the weights
softmax(v) ==
    [i \in 1..Len(v) |->
        (1000 * Pow2(v[i])) \div Sum([j \in 1..Len(v) |-> Pow2(v[j])])]

\* an index that ignores the values
ArgFirst(v) == 1

\* tf.argmax: the first index holding the maximum
ArgMax(v) ==
    CHOOSE i \in 1..Len(v) :
        /\ \A j \in 1..Len(v) : v[j] <= v[i]
        /\ \A j \in 1..(i - 1) : v[j] < v[i]

\* zip(a, b): pairs, as many as the shorter has
zip(a, b) ==
    [i \in 1..(IF Len(a) < Len(b) THEN Len(a) ELSE Len(b)) |-> <<a[i], b[i]>>]

\* the dict predict() returns; probabilities as the (key, value) items
Result(error, state, confidence, probabilities) ==
    [error |-> error, state |-> state, confidence |-> confidence,
     probabilities |-> probabilities]

\* the success dict built from the model's output
Prediction(prediction) ==
    LET probabilities == softmax(prediction)
        predicted_index == ArgMax(probabilities)
    IN Result(None, class_names[predicted_index],
              probabilities[predicted_index],
              zip(class_names, probabilities))

\* a predict without the test for a missing model
predict_unguarded(m, content) ==
    IF preprocess_audio(content) = NoSpectrogram
    THEN Result("Failed to preprocess audio", "unknown", 0, <<>>)
    ELSE IF ModelRaises(preprocess_audio(content).src)
    THEN Result("model call raised", "unknown", 0, <<>>)
    ELSE Prediction(Scores(preprocess_audio(content).src))

\* AudioAnalyzer.predict on the bytes found at audio_path (NoFile: none)
predict(m, content) ==
    IF m = None THEN Result("Model not loaded", "unknown", 0, <<>>)
    ELSE IF preprocess_audio(content) = NoSpectrogram
    THEN Result("Failed to preprocess audio", "unknown", 0, <<>>)
    ELSE IF ModelRaises(preprocess_audio(content).src)
    THEN Result("model call raised", "unknown", 0, <<>>)
    ELSE Prediction(Scores(preprocess_audio(content).src))

\* 'error' in prediction_result
HasError(result) == result.error # None

NoResult == Result(None, None, 0, <<>>)
NoJob == [path |-> NoPath, buf |-> None, read |-> None, result |-> NoResult]

\* --------------------------------------------------------- connection --
\* connect(): the substring tests on the query string
ClientTypeOf(q) ==
    IF "type=recorder" \in q THEN "recorder"
    ELSE IF "type=dashboard" \in q THEN "dashboard"
    ELSE "unknown"

\* a room name that leaves the baby_id out: one group for every subject
RoomShared(b) == UNION {groups[x] : x \in Subjects}

\* the channels of the group named by room_group_name (one per baby_id)
Room(b) == groups[b]

\* channel_layer.group_send: one copy per channel in the group
group_send(members, msg) ==
    [d \in Conn |-> IF d \in members THEN Append(inbox[d], msg) ELSE inbox[d]]

\* every channel of the group can take one more message
HasRoom(members) == \A d \in members : Len(inbox[d]) < MaxInbox

NoSession == [recording |-> FALSE, chunks |-> 0]

\* every consumer as __init__ leaves it, an empty channel layer
InitConsumers ==
    /\ conn_state   = [c \in Conn |-> "init"]
    /\ baby_id      = [c \in Conn |-> None]
    /\ client_type  = [c \in Conn |-> None]
    /\ is_recording = [c \in Conn |-> FALSE]
    /\ chunk_count  = [c \in Conn |-> 0]
    /\ pc           = [c \in Conn |-> "idle"]
    /\ job          = [c \in Conn |-> NoJob]
    /\ groups       = [b \in Subjects |-> {}]
    /\ inbox        = [c \in Conn |-> <<>>]
    /\ files        = [p \in Paths |-> NoFile]
    /\ clock        = 0
    /\ model        \in {"loaded", None}
    /\ classified   = [c \in Conn |-> 0]
    /\ returned     = [c \in Conn |-> 0]
    /\ session      = [b \in Subjects |-> NoSession]
    /\ last         = Last("init", None, None, None, "ok", <<>>, <<>>)

\* no run of preprocess_audio under way
NoDecode == [content |-> None, wave |-> <<>>, stage |-> "idle", tried |-> <<>>,
             waveform |-> <<>>, spectrogram |-> NoSpectrogram]

\* a client that has sent nothing
NoWire == [queue |-> <<>>, armed |-> FALSE]

\* analyze_audio callers
Req == {"r1", "r2"}

\* no call under way
NoRequest == [pc |-> "idle", sid |-> 0, total_chunks |-> 0, status |-> 0]

\* no row in either table
NoRows == [AudioSession |-> <<>>, SensorData |-> <<>>]

Init ==
    /\ InitConsumers
    /\ decode = NoDecode
    /\ wire = [c \in Conn |-> NoWire]
    /\ worker = None
    /\ db = NoRows
    /\ requests = [r \in Req |-> NoRequest]

connect(c, b, q) ==
    /\ conn_state[c] = "init"
    /\ HasRoom(Room(b) \cup {c})
    /\ baby_id' = [baby_id EXCEPT ![c] = b]
    /\ client_type' = [client_type EXCEPT ![c] = ClientTypeOf(q)]
    /\ groups' = [groups EXCEPT ![b] = @ \cup {c}]
    /\ conn_state' = [conn_state EXCEPT ![c] = "open"]
    /\ LET note == Msg("client_connected", b, None, Absent, ClientTypeOf(q),
                       c, None)
           ack  == Msg("connection_status", b, "connected", Absent,
                       ClientTypeOf(q), None, None)
       IN /\ inbox' = group_send(Room(b) \cup {c}, note)
          /\ last' = Last("connect", c, None, None, "ok", <<ack>>, <<note>>)
    /\ UNCHANGED <<is_recording, chunk_count, pc, job, files, clock, model,
                   classified, returned, session>>

\* a disconnect that leaves the channel in the group
disconnect_keep(c) ==
    /\ conn_state[c] = "open"
    /\ pc[c] = "idle"
    /\ HasRoom(Room(baby_id[c]))
    /\ LET note == Msg("client_disconnected", baby_id[c], None, Absent,
                       client_type[c], None, None)
       IN /\ inbox' = group_send(Room(baby_id[c]), note)
          /\ last' = Last("disconnect", c, None, None, "ok", <<>>, <<note>>)
    /\ conn_state' = [conn_state EXCEPT ![c] = "closed"]
    /\ UNCHANGED <<baby_id, client_type, is_recording, chunk_count, pc, job,
                   groups, files, clock, model, classified, returned, session>>

disconnect(c) ==
    /\ conn_state[c] = "open"
    /\ pc[c] = "idle"
    /\ HasRoom(Room(baby_id[c]))
    /\ LET note == Msg("client_disconnected", baby_id[c], None, Absent,
                       client_type[c], None, None)
       IN /\ inbox' = group_send(Room(baby_id[c]), note)
          /\ last' = Last("disconnect", c, None, None, "ok", <<>>, <<note>>)
    /\ groups' = [groups EXCEPT ![baby_id[c]] = @ \ {c}]
    /\ conn_state' = [conn_state EXCEPT ![c] = "closed"]
    /\ UNCHANGED <<baby_id, client_type, is_recording, chunk_count, pc, job,
                   files, clock, model, classified, returned, session>>

\* --------------------------------------------------- control commands --
\* json.loads(text_data) raises on this text
JsonRaises(t) == t = "malformed"

\* json.loads(text_data) is a dict (data.get exists)
JsonIsDict(t) == t \notin {"malformed", "list"}

\* data.get('type')
MessageType(t) ==
    IF t \in {"start_recording", "stop_recording", "ping", "request_status",
              "bogus"}
    THEN t ELSE None

\* a step of connection c that changes nothing but the frames it writes
Reply(c, text, bytes, io, frames) ==
    /\ last' = Last("receive", c, text, bytes, io, frames, <<>>)
    /\ UNCHANGED <<conn_state, baby_id, client_type, is_recording, chunk_count,
                   pc, job, groups, inbox, files, clock, model, classified,
                   returned, session>>

\* an except branch that closes the connection
receive_error_close(c, text) ==
    /\ conn_state' = [conn_state EXCEPT ![c] = "closed"]
    /\ last' = Last("receive", c, text, None, "ok",
                    <<Msg("error", None, None, Absent, None, None, None)>>, <<>>)
    /\ UNCHANGED <<baby_id, client_type, is_recording, chunk_count, pc, job,
                   groups, inbox, files, clock, model, classified, returned,
                   session>>

\* an except branch that also ends the recording
receive_error_reset(c, text) ==
    /\ is_recording' = [is_recording EXCEPT ![c] = FALSE]
    /\ last' = Last("receive", c, text, None, "ok",
                    <<Msg("error", None, None, Absent, None, None, None)>>, <<>>)
    /\ UNCHANGED <<conn_state, baby_id, client_type, chunk_count, pc, job,
                   groups, inbox, files, clock, model, classified, returned,
                   session>>

\* the except branch of receive(): an error frame to this client
receive_error(c, text) ==
    Reply(c, text, None, "ok",
          <<Msg("error", None, None, Absent, None, None, None)>>)

\* a start that resets the counter only when it begins a recording
handle_start_recording_keep(c, data) ==
    /\ HasRoom(Room(baby_id[c]))
    /\ is_recording' = [is_recording EXCEPT ![c] = TRUE]
    /\ chunk_count' = [chunk_count EXCEPT ![c] = IF is_recording[c] THEN @ ELSE 0]
    /\ classified' = [classified EXCEPT ![c] = 0]
    /\ returned' = [returned EXCEPT ![c] = 0]
    /\ session' = [session EXCEPT ![baby_id[c]] =
                       [recording |-> TRUE, chunks |-> 0]]
    /\ LET ev == Msg("recording_status_broadcast", baby_id[c], "started",
                     Absent, client_type[c], None, None)
       IN /\ inbox' = group_send(Room(baby_id[c]), ev)
          /\ last' = Last("receive", c, data, None, "ok", <<>>, <<ev>>)
    /\ UNCHANGED <<conn_state, baby_id, client_type, pc, job, groups, files,
                   clock, model>>

\* a start that makes its sender the recorder
handle_start_recording_promote(c, data) ==
    /\ HasRoom(Room(baby_id[c]))
    /\ is_recording' = [is_recording EXCEPT ![c] = TRUE]
    /\ chunk_count' = [chunk_count EXCEPT ![c] = 0]
    /\ client_type' = [client_type EXCEPT ![c] = "recorder"]
    /\ classified' = [classified EXCEPT ![c] = 0]
    /\ returned' = [returned EXCEPT ![c] = 0]
    /\ session' = [session EXCEPT ![baby_id[c]] =
                       [recording |-> TRUE, chunks |-> 0]]
    /\ LET ev == Msg("recording_status_broadcast", baby_id[c], "started",
                     Absent, client_type[c], None, None)
       IN /\ inbox' = group_send(Room(baby_id[c]), ev)
          /\ last' = Last("receive", c, data, None, "ok", <<>>, <<ev>>)
    /\ UNCHANGED <<conn_state, baby_id, pc, job, groups, files, clock, model>>

handle_start_recording(c, data) ==
    /\ HasRoom(Room(baby_id[c]))
    /\ is_recording' = [is_recording EXCEPT ![c] = TRUE]
    /\ chunk_count' = [chunk_count EXCEPT ![c] = 0]
    /\ classified' = [classified EXCEPT ![c] = 0]
    /\ returned' = [returned EXCEPT ![c] = 0]
    /\ session' = [session EXCEPT ![baby_id[c]] =
                       [recording |-> TRUE, chunks |-> 0]]
    /\ LET ev == Msg("recording_status_broadcast", baby_id[c], "started",
                     Absent, client_type[c], None, None)
       IN /\ inbox' = group_send(Room(baby_id[c]), ev)
          /\ last' = Last("receive", c, data, None, "ok", <<>>, <<ev>>)
    /\ UNCHANGED <<conn_state, baby_id, client_type, pc, job, groups, files,
                   clock, model>>

handle_stop_recording(c, data) ==
    /\ HasRoom(Room(baby_id[c]))
    /\ is_recording' = [is_recording EXCEPT ![c] = FALSE]
    /\ session' = [session EXCEPT ![baby_id[c]].recording = FALSE]
    /\ LET ev == Msg("recording_status_broadcast", baby_id[c], "stopped",
                     chunk_count[c], client_type[c], None, None)
       IN /\ inbox' = group_send(Room(baby_id[c]), ev)
          /\ last' = Last("receive", c, data, None, "ok", <<>>, <<ev>>)
    /\ UNCHANGED <<conn_state, baby_id, client_type, chunk_count, pc, job,
                   groups, files, clock, model, classified, returned>>

\* a pong handed to the group instead of the sender
pong_broadcast(c, text) ==
    /\ HasRoom(Room(baby_id[c]))
    /\ LET ev == Msg("pong", None, None, Absent, None, None, None)
       IN /\ inbox' = group_send(Room(baby_id[c]), ev)
          /\ last' = Last("receive", c, text, None, "ok", <<>>, <<ev>>)
    /\ UNCHANGED <<conn_state, baby_id, client_type, is_recording, chunk_count,
                   pc, job, groups, files, clock, model, classified, returned,
                   session>>

\* the 'ping' branch of receive()
pong(c, text) ==
    Reply(c, text, None, "ok",
          <<Msg("pong", None, None, Absent, None, None, None)>>)

\* json.dumps of a bool
JsonBool(x) == IF x THEN "true" ELSE "false"

\* the current_status frame
current_status(c) ==
    Msg("current_status", baby_id[c], JsonBool(is_recording[c]),
        chunk_count[c], client_type[c], None, None)

send_current_status(c, text) ==
    Reply(c, text, None, "ok", <<current_status(c)>>)

\* ---------------------------------------------------------- audio chunk --
\* a gate that turns away only clients of no known type
MayStreamKnown(c) == client_type[c] # "unknown"

\* receive(): binary frames are taken from recorder clients only
MayStream(c) == client_type[c] = "recorder"

\* a handler without the recording check
DiscardedNever(c) == FALSE

\* handle_audio_chunk: a chunk is dropped while this connection is not
\* recording
Discarded(c) == ~is_recording[c]

\* temp_file_path: named by baby_id and the clock second
TempPath(c) == <<baby_id[c], clock>>

\* a counter that only a successful classification advances
CountAfterSuccessOnly(c, result) ==
    IF HasError(result) THEN chunk_count[c] ELSE chunk_count[c] + 1

\* self.chunk_count += 1, done when the pipeline call has returned
CountAfter(c, result) == chunk_count[c] + 1

\* the processing_error frame
processing_error(n, cause) ==
    Msg("processing_error", None, None, n, None, None, cause)

\* handle_audio_chunk up to its await; w: whether open()/write() raises
handle_audio_chunk(c, audio_data, w) ==
    IF Discarded(c)
    THEN /\ w = "ok"
         /\ Reply(c, None, audio_data, "ok", <<>>)
    ELSE IF w = "raise"
    THEN Reply(c, None, audio_data, w,
               <<processing_error(chunk_count[c], "write failed")>>)
    ELSE /\ files' = [files EXCEPT ![TempPath(c)] = audio_data]
         /\ job' = [job EXCEPT ![c] = [path |-> TempPath(c), buf |-> audio_data,
                                       read |-> None, result |-> NoResult]]
         /\ pc' = [pc EXCEPT ![c] = "await"]
         /\ last' = Last("receive", c, None, audio_data, w, <<>>, <<>>)
         /\ UNCHANGED <<conn_state, baby_id, client_type, is_recording,
                        chunk_count, groups, inbox, clock, model, classified,
                        returned, session>>

\* the worker thread: analyzer.predict(audio_path), exceptions turned into
\* an error result
process_audio_async(c) ==
    /\ pc[c] = "await"
    /\ job' = [job EXCEPT ![c].read = files[job[c].path],
                          ![c].result = predict(model, files[job[c].path])]
    /\ pc' = [pc EXCEPT ![c] = "ready"]
    /\ last' = Last("process_audio_async", c, None, job[c].buf, "ok",
                    <<>>, <<>>)
    /\ UNCHANGED <<conn_state, baby_id, client_type, is_recording, chunk_count,
                   groups, inbox, files, clock, model, classified, returned,
                   session>>

\* a prediction numbered with the counter as it was before the increment
prediction_event_stale(c, result) ==
    Msg("prediction_update_broadcast", baby_id[c], None, chunk_count[c],
        None, None, result.state)

\* the prediction_update_broadcast message of a result
prediction_event(c, result) ==
    Msg("prediction_update_broadcast", baby_id[c], None, CountAfter(c, result),
        None, None, result.state)

\* an outcome that reports a raising broadcast on top of the broadcast
OutcomeBoth(c, g) ==
    IF HasError(job[c].result)
    THEN [frames |-> <<processing_error(CountAfter(c, job[c].result),
                                        job[c].result.error)>>,
          bcast  |-> <<>>]
    ELSE [frames |-> IF g = "raise"
                     THEN <<processing_error(CountAfter(c, job[c].result),
                                             "group_send raised")>>
                     ELSE <<>>,
          bcast  |-> <<prediction_event(c, job[c].result)>>]

\* an outcome that hands a failed chunk's error to the group
OutcomeErrorToGroup(c, g) ==
    IF HasError(job[c].result)
    THEN [frames |-> <<>>,
          bcast  |-> <<processing_error(CountAfter(c, job[c].result),
                                        job[c].result.error)>>]
    ELSE IF g = "raise"
    THEN [frames |-> <<processing_error(CountAfter(c, job[c].result),
                                        "group_send raised")>>,
          bcast  |-> <<>>]
    ELSE [frames |-> <<>>,
          bcast  |-> <<prediction_event(c, job[c].result)>>]

\* what handle_audio_chunk emits once the pipeline call has returned:
\* frames to the sender's own socket, messages to the group; g: whether
\* group_send raises (it raises before any channel has the message)
Outcome(c, g) ==
    IF HasError(job[c].result)
    THEN [frames |-> <<processing_error(CountAfter(c, job[c].result),
                                        job[c].result.error)>>,
          bcast  |-> <<>>]
    ELSE IF g = "raise"
    THEN [frames |-> <<processing_error(CountAfter(c, job[c].result),
                                        "group_send raised")>>,
          bcast  |-> <<>>]
    ELSE [frames |-> <<>>,
          bcast  |-> <<prediction_event(c, job[c].result)>>]

\* handle_audio_chunk after its await
handle_audio_chunk_resume(c, g) ==
    /\ pc[c] = "ready"
    /\ HasError(job[c].result) => g = "ok"
    /\ files' = [files EXCEPT ![job[c].path] = NoFile]
    /\ chunk_count' = [chunk_count EXCEPT ![c] = CountAfter(c, job[c].result)]
    /\ returned' = [returned EXCEPT ![c] = @ + 1]
    /\ session' = [session EXCEPT ![baby_id[c]].chunks = @ + 1]
    /\ classified' = [classified EXCEPT ![c] =
                         IF HasError(job[c].result) THEN @ ELSE @ + 1]
    /\ pc' = [pc EXCEPT ![c] = "idle"]
    /\ job' = [job EXCEPT ![c] = NoJob]
    /\ IF Outcome(c, g).bcast = <<>>
       THEN inbox' = inbox
       ELSE /\ HasRoom(Room(baby_id[c]))
            /\ inbox' = group_send(Room(baby_id[c]), Outcome(c, g).bcast[1])
    /\ last' = Last("handle_audio_chunk_resume", c, None, job[c].buf, g,
                    Outcome(c, g).frames, Outcome(c, g).bcast)
    /\ UNCHANGED <<conn_state, baby_id, client_type, is_recording, groups,
                   clock, model>>

\* a pipeline call made on the event loop: while it runs no consumer is
\* given a frame
BusyAny(c) == \E d \in Conn : pc[d] # "idle"

\* the consumer of connection c is inside handle_audio_chunk, at its await
\* of the pipeline call; the event loop runs the other consumers meanwhile
Busy(c) == pc[c] # "idle"

\* database_sync_to_async: the one sync thread takes up the call of c
thread_start(c) ==
    /\ worker = None
    /\ pc[c] = "await"
    /\ worker' = c
    /\ UNCHANGED <<consumers, decode, wire, db, requests>>

\* the sync thread runs analyzer.predict for c and hands back the result
thread_run(c) ==
    /\ worker = c
    /\ process_audio_async(c)
    /\ worker' = None
    /\ UNCHANGED <<decode, wire, db, requests>>

\* ------------------------------------------------------------- receive --
\* receive(text_data, bytes_data): a frame carries one of the two
receive(c, text_data, bytes_data, w) ==
    /\ conn_state[c] = "open"
    /\ ~Busy(c)
    /\ IF text_data \notin {None, ""}
       THEN /\ w = "ok"
            /\ IF JsonRaises(text_data) \/ ~JsonIsDict(text_data)
               THEN receive_error(c, text_data)
               ELSE IF MessageType(text_data) = "start_recording"
               THEN handle_start_recording(c, text_data)
               ELSE IF MessageType(text_data) = "stop_recording"
               THEN handle_stop_recording(c, text_data)
               ELSE IF MessageType(text_data) = "ping"
               THEN pong(c, text_data)
               ELSE IF MessageType(text_data) = "request_status"
               THEN send_current_status(c, text_data)
               ELSE Reply(c, text_data, None, "ok", <<>>)
       ELSE IF bytes_data \notin {None, "empty"}
       THEN IF MayStream(c)
            THEN /\ chunk_count[c] < MaxChunks
                 /\ handle_audio_chunk(c, bytes_data, w)
            ELSE /\ w = "ok"
                 /\ Reply(c, None, bytes_data, "ok", <<>>)
       ELSE /\ w = "ok"
            /\ Reply(c, text_data, bytes_data, "ok", <<>>)

\* ----------------------------------------------- group message handlers --
recording_status_broadcast(event) ==
    Msg("recording_status", event.baby, event.status,
        IF event.n = Absent THEN 0 ELSE event.n, event.client, None, None)

prediction_update_broadcast(event) ==
    Msg("prediction_update", event.baby, None, event.n, None, None, event.cls)

\* a handler that also tells the joining client of its own arrival
client_connected_all(c, event) ==
    <<Msg("client_status", event.baby, "connected", Absent, event.client,
          None, None)>>

client_connected(c, event) ==
    IF event.ch # c
    THEN <<Msg("client_status", event.baby, "connected", Absent, event.client,
               None, None)>>
    ELSE <<>>

client_disconnected(event) ==
    Msg("client_status", event.baby, "disconnected", Absent, event.client,
        None, None)

\* the frames the handler named by event['type'] writes to this client
Dispatch(c, event) ==
    CASE event.type = "recording_status_broadcast" ->
             <<recording_status_broadcast(event)>>
      [] event.type = "prediction_update_broadcast" ->
             <<prediction_update_broadcast(event)>>
      [] event.type = "client_connected" -> client_connected(c, event)
      [] event.type = "client_disconnected" -> <<client_disconnected(event)>>

\* the consumer takes the next group message off its channel
deliver(c) ==
    /\ conn_state[c] = "open"
    /\ pc[c] = "idle"
    /\ inbox[c] # <<>>
    /\ inbox' = [inbox EXCEPT ![c] = Tail(@)]
    /\ last' = Last("deliver", c, None, None, "ok",
                    Dispatch(c, Head(inbox[c])), <<>>)
    /\ UNCHANGED <<conn_state, baby_id, client_type, is_recording, chunk_count,
                   pc, job, groups, files, clock, model, classified, returned,
                   session>>

\* a second passes
tick ==
    /\ clock < MaxClock
    /\ clock' = clock + 1
    /\ last' = Last("tick", None, None, None, "ok", <<>>, <<>>)
    /\ UNCHANGED <<conn_state, baby_id, client_type, is_recording, chunk_count,
                   pc, job, groups, inbox, files, model, classified, returned,
                   session>>

\* ------------------------------------------------- frames on the wire --
\* a frame a client sent; armed: for a chunk, whether the client's last
\* command before it was a start_recording
Frame(text, bytes, armed) == [text |-> text, bytes |-> bytes, armed |-> armed]

\* a dispatch that hands over the newest waiting frame
ArrivalNewest(q) == Len(q)

\* the consumer's dispatch loop hands receive() the oldest waiting frame
Arrival(q) == 1

\* q without its i-th frame
Without(q, i) == SubSeq(q, 1, i - 1) \o SubSeq(q, i + 1, Len(q))

\* the client of connection c sends a frame
client_send(c, text, bytes) ==
    /\ conn_state[c] = "open"
    /\ Len(wire[c].queue) < MaxSent
    /\ wire' = [wire EXCEPT ![c] =
                    [queue |-> Append(@.queue,
                                      Frame(text, bytes,
                                            bytes # None /\ @.armed)),
                     armed |-> IF text = "start_recording" THEN TRUE
                               ELSE IF text = "stop_recording" THEN FALSE
                               ELSE @.armed]]
    /\ UNCHANGED <<consumers, decode, worker, db, requests>>

\* the dispatch loop awaits receive() on the next frame of connection c
websocket_receive(c) ==
    /\ wire[c].queue # <<>>
    /\ receive(c, wire[c].queue[Arrival(wire[c].queue)].text,
               wire[c].queue[Arrival(wire[c].queue)].bytes, "ok")
    /\ wire' = [wire EXCEPT ![c].queue = Without(@, Arrival(@))]
    /\ UNCHANGED <<decode, worker, db, requests>>

\* ------------------------------------------------ preprocess_audio, run --
\* decoded waveforms: up to MaxWave samples, each 0 or 1
Waves == UNION {[1..n -> {0, 1}] : n \in 0..MaxWave}

\* np.pad(audio, (0, n), mode='constant')
pad(audio, n) == audio \o [i \in 1..n |-> 0]

\* a rule that keeps the end of a long waveform and fills a short one at
\* its start
normalize_tail(audio) ==
    IF Len(audio) > Samples
    THEN SubSeq(audio, Len(audio) - Samples + 1, Len(audio))
    ELSE IF Len(audio) < Samples
    THEN [i \in 1..(Samples - Len(audio)) |-> 0] \o audio
    ELSE audio

\* "ensure we have exactly 16000 samples": cut a longer waveform, pad a
\* shorter one
normalize(audio) ==
    IF Len(audio) > Samples THEN SubSeq(audio, 1, Samples)
    ELSE IF Len(audio) < Samples THEN pad(audio, Samples - Len(audio))
    ELSE audio

\* tf.audio.decode_wav(desired_samples=16000)
decode_wav(audio) ==
    [i \in 1..Samples |-> IF i <= Len(audio) THEN audio[i] ELSE 0]

\* preprocess_audio is called: the first tier is next
start_preprocess(content, wave) ==
    /\ decode.stage = "idle"
    /\ decode' = [NoDecode EXCEPT !.content = content, !.wave = wave,
                                  !.stage = "librosa"]

\* a first tier after whose success the second still runs
try_librosa_through ==
    /\ decode.stage = "librosa"
    /\ decode' =
           IF preprocess_audio_with_librosa(decode.content) # NoSpectrogram
           THEN [decode EXCEPT
                    !.tried = Append(@, 1),
                    !.waveform = normalize(decode.wave),
                    !.spectrogram = preprocess_audio_with_librosa(decode.content),
                    !.stage = "tensorflow"]
           ELSE [decode EXCEPT !.tried = Append(@, 1), !.stage = "tensorflow"]

\* method 1: preprocess_audio_with_librosa
try_librosa ==
    /\ decode.stage = "librosa"
    /\ decode' =
           IF preprocess_audio_with_librosa(decode.content) # NoSpectrogram
           THEN [decode EXCEPT
                    !.tried = Append(@, 1),
                    !.waveform = normalize(decode.wave),
                    !.spectrogram = preprocess_audio_with_librosa(decode.content),
                    !.stage = "done"]
           ELSE [decode EXCEPT !.tried = Append(@, 1), !.stage = "tensorflow"]

\* method 2: preprocess_audio_tensorflow
try_tensorflow ==
    /\ decode.stage = "tensorflow"
    /\ decode' =
           IF preprocess_audio_tensorflow(decode.content) # NoSpectrogram
           THEN [decode EXCEPT
                    !.tried = Append(@, 2),
                    !.waveform = decode_wav(decode.wave),
                    !.spectrogram = preprocess_audio_tensorflow(decode.content),
                    !.stage = "done"]
           ELSE [decode EXCEPT !.tried = Append(@, 2), !.stage = "wavfile"]

\* method 3: scipy.io.wavfile, the last resort
try_wavfile ==
    /\ decode.stage = "wavfile"
    /\ decode' =
           IF WavfileReads(decode.content)
           THEN [decode EXCEPT
                    !.tried = Append(@, 3),
                    !.waveform = normalize(decode.wave),
                    !.spectrogram = Spectrogram(3, decode.content),
                    !.stage = "done"]
           ELSE [decode EXCEPT !.tried = Append(@, 3), !.stage = "done"]

\* -------------------------------------------------- analyze_audio (HTTP) --
\* request bodies: a required field missing, a baby that is not the
\* user's, a file that cannot be converted, a good request
Bodies == {"missing", "nobaby", "unconvertible", "ok"}

\* the call ends with this HTTP status
Respond(r, status) ==
    requests' = [requests EXCEPT ![r] = [NoRequest EXCEPT !.pc = "done",
                                                          !.status = status]]

\* analyze_audio up to the session lookup: the checks of the request
analyze_audio(r, body) ==
    /\ requests[r].pc = "idle"
    /\ Len(db.SensorData) < MaxRecords
    /\ CASE body = "missing"       -> Respond(r, 400)
         [] body = "nobaby"        -> Respond(r, 404)
         [] body = "unconvertible" -> Respond(r, 400)
         [] body = "ok" -> requests' = [requests EXCEPT ![r].pc = "get"]
    /\ UNCHANGED db

\* get_or_create, the get: the baby's active AudioSession
get_or_create(r) ==
    /\ requests[r].pc = "get"
    /\ IF Len(db.AudioSession) = 0
       THEN requests' = [requests EXCEPT ![r].pc = "create"]
       ELSE IF Len(db.AudioSession) = 1
       THEN requests' = [requests EXCEPT
                            ![r].pc = "analyze",
                            ![r].sid = 1,
                            ![r].total_chunks = db.AudioSession[1]]
       ELSE Respond(r, 500)
    /\ UNCHANGED db

\* get_or_create, the create after a get that found no row
create(r) ==
    /\ requests[r].pc = "create"
    /\ db' = [db EXCEPT !.AudioSession = Append(@, 0)]
    /\ requests' = [requests EXCEPT ![r].pc = "analyze",
                                    ![r].sid = Len(db.AudioSession) + 1,
                                    ![r].total_chunks = 0]

\* analyzer.analyze and the device lookup
analyze(r) ==
    /\ requests[r].pc = "analyze"
    /\ requests' = [requests EXCEPT ![r].pc = "save"]
    /\ UNCHANGED db

\* the transaction: one SensorData row, total_chunks += 1 on the session
\* object read before the analysis, save()
save(r) ==
    /\ requests[r].pc = "save"
    /\ db' = [db EXCEPT
                 !.SensorData = Append(@, requests[r].sid),
                 !.AudioSession[requests[r].sid] = requests[r].total_chunks + 1]
    /\ requests' = [requests EXCEPT ![r].pc = "done", ![r].status = 200]

\* the response is returned
return_response(r) ==
    /\ requests[r].pc = "done"
    /\ requests' = [requests EXCEPT ![r] = NoRequest]
    /\ UNCHANGED db

\* ------------------------------------------------------- specification --
\* The streaming session: one recorder (c1) and one observer (c2) on
\* subject b1, and a connection (c3) on another subject.  Every connection
\* may send every command.  A consumer takes the group messages already on
\* its channel before its next client frame.  With one recorder per
\* subject a temp path has one writer, so the clock stands still here.
Attach == {<<"c1", "b1", {"type=recorder"}>>,
           <<"c1", "b1", {"type=recorder", "type=dashboard"}>>,
           <<"c2", "b1", {"type=dashboard"}>>,
           <<"c2", "b1", {}>>,
           <<"c3", "b2", {"type=dashboard"}>>}
Commands == {"start_recording", "stop_recording", "request_status"}
Chunks   == {"webm", "junk", "odd"}

Next ==
    \/ \E a \in Attach : connect(a[1], a[2], a[3]) /\ UNCHANGED aux
    \/ \E c \in Conn : inbox[c] = <<>> /\ disconnect(c) /\ UNCHANGED aux
    \/ \E c \in Conn, t \in Commands :
           inbox[c] = <<>> /\ receive(c, t, None, "ok") /\ UNCHANGED aux
    \/ \E c \in Conn, b \in Chunks, w \in {"ok", "raise"} :
           inbox[c] = <<>> /\ receive(c, None, b, w) /\ UNCHANGED aux
    \/ \E c \in Conn : process_audio_async(c) /\ UNCHANGED aux
    \/ \E c \in Conn, g \in {"ok", "raise"} :
           handle_audio_chunk_resume(c, g) /\ UNCHANGED aux
    \/ \E c \in Conn : deliver(c) /\ UNCHANGED aux

Spec == Init /\ [][Next]_vars

\* Every frame a client can send: a recorder (c1) and a dashboard or
\* untyped client (c2) on subject b1 send every text of Texts and every
\* buffer of Buffers.
AttachFrames == {<<"c1", "b1", {"type=recorder"}>>,
                 <<"c2", "b1", {"type=dashboard"}>>,
                 <<"c2", "b1", {}>>}

NextFrames ==
    \/ \E a \in AttachFrames : connect(a[1], a[2], a[3]) /\ UNCHANGED aux
    \/ \E c \in Conn : inbox[c] = <<>> /\ disconnect(c) /\ UNCHANGED aux
    \/ \E c \in Conn, t \in Texts :
           inbox[c] = <<>> /\ receive(c, t, None, "ok") /\ UNCHANGED aux
    \/ \E c \in Conn, b \in Buffers, w \in {"ok", "raise"} :
           inbox[c] = <<>> /\ receive(c, None, b, w) /\ UNCHANGED aux
    \/ \E c \in Conn : process_audio_async(c) /\ UNCHANGED aux
    \/ \E c \in Conn, g \in {"ok", "raise"} :
           handle_audio_chunk_resume(c, g) /\ UNCHANGED aux
    \/ \E c \in Conn : deliver(c) /\ UNCHANGED aux

SpecFrames == Init /\ [][NextFrames]_vars

\* One run of preprocess_audio on every kind of file with every decoded
\* waveform of up to MaxWave samples; the consumers stay as constructed.
NextDecode ==
    \/ \E b \in Buffers, a \in Waves :
           start_preprocess(b, a) /\ UNCHANGED <<consumers, wire, worker, db, requests>>
    \/ try_librosa /\ UNCHANGED <<consumers, wire, worker, db, requests>>
    \/ try_tensorflow /\ UNCHANGED <<consumers, wire, worker, db, requests>>
    \/ try_wavfile /\ UNCHANGED <<consumers, wire, worker, db, requests>>

SpecDecode == Init /\ [][NextDecode]_vars

\* One recorder whose client sends starts, stops and chunks ahead of the
\* consumer: up to MaxSent frames wait on the connection.
NextOrder ==
    \/ connect("c1", "b1", {"type=recorder"}) /\ UNCHANGED aux
    \/ \E t \in {"start_recording", "stop_recording"} :
           client_send("c1", t, None)
    \/ \E b \in {"webm", "junk"} : client_send("c1", None, b)
    \/ \E c \in Conn : inbox[c] = <<>> /\ websocket_receive(c)
    \/ \E c \in Conn : process_audio_async(c) /\ UNCHANGED aux
    \/ \E c \in Conn : handle_audio_chunk_resume(c, "ok") /\ UNCHANGED aux
    \/ \E c \in Conn : deliver(c) /\ UNCHANGED aux

SpecOrder == Init /\ [][NextOrder]_vars

\* Two recorders (c1, c2) on subject b1 streaming at once; the pipeline
\* calls go through the one sync thread, and the clock moves, so temp
\* paths of different seconds differ.
AttachRace == {<<"c1", "b1", {"type=recorder"}>>,
               <<"c2", "b1", {"type=recorder"}>>}

\* the bytes each recorder streams: they differ
ChunksRace == {<<"c1", "webm">>, <<"c2", "wav">>}

NextRace ==
    \/ \E a \in AttachRace : connect(a[1], a[2], a[3]) /\ UNCHANGED aux
    \/ \E c \in Conn :
           inbox[c] = <<>> /\ receive(c, "start_recording", None, "ok")
                          /\ UNCHANGED aux
    \/ \E k \in ChunksRace :
           inbox[k[1]] = <<>> /\ receive(k[1], None, k[2], "ok")
                             /\ UNCHANGED aux
    \/ \E c \in Conn : thread_start(c)
    \/ \E c \in Conn : thread_run(c)
    \/ \E c \in Conn : handle_audio_chunk_resume(c, "ok") /\ UNCHANGED aux
    \/ \E c \in Conn : deliver(c) /\ UNCHANGED aux
    \/ tick /\ UNCHANGED aux

SpecRace == Init /\ [][NextRace]_vars

\* A recorder (c1) streaming on subject b1 while a dashboard (c2) on b1
\* sends commands and a recorder (c3) streams on subject b2; the pipeline
\* calls go through the one sync thread.
AttachLoop == {<<"c1", "b1", {"type=recorder"}>>,
               <<"c2", "b1", {"type=dashboard"}>>,
               <<"c3", "b2", {"type=recorder"}>>}

CommandsLoop == {<<"c1", "start_recording">>,
                 <<"c2", "ping">>, <<"c2", "request_status">>,
                 <<"c2", "start_recording">>, <<"c2", "stop_recording">>,
                 <<"c3", "start_recording">>}

NextLoop ==
    \/ \E a \in AttachLoop : connect(a[1], a[2], a[3]) /\ UNCHANGED aux
    \/ \E k \in CommandsLoop :
           inbox[k[1]] = <<>> /\ receive(k[1], k[2], None, "ok")
                             /\ UNCHANGED aux
    \/ \E c \in {"c1", "c3"} :
           inbox[c] = <<>> /\ receive(c, None, "webm", "ok") /\ UNCHANGED aux
    \/ \E c \in Conn : thread_start(c)
    \/ \E c \in Conn : thread_run(c)
    \/ \E c \in Conn : handle_audio_chunk_resume(c, "ok") /\ UNCHANGED aux
    \/ \E c \in Conn : deliver(c) /\ UNCHANGED aux

SpecLoop == Init /\ [][NextLoop]_vars

\* Two analyze_audio calls for one baby, run by two request threads.
NextAnalyze ==
    \/ \E r \in Req, body \in Bodies :
           analyze_audio(r, body) /\ UNCHANGED <<consumers, decode, wire, worker>>
    \/ \E r \in Req :
           get_or_create(r) /\ UNCHANGED <<consumers, decode, wire, worker>>
    \/ \E r \in Req : create(r) /\ UNCHANGED <<consumers, decode, wire, worker>>
    \/ \E r \in Req : analyze(r) /\ UNCHANGED <<consumers, decode, wire, worker>>
    \/ \E r \in Req : save(r) /\ UNCHANGED <<consumers, decode, wire, worker>>
    \/ \E r \in Req :
           return_response(r) /\ UNCHANGED <<consumers, decode, wire, worker>>

SpecAnalyze == Init /\ [][NextAnalyze]_vars

\* ================================================================ claims --
\* the step taken last, by kind
Started == last.op = "receive" /\ last.text = "start_recording"
Stopped == last.op = "receive" /\ last.text = "stop_recording"
Asked   == last.op = "receive" /\ last.text = "request_status"
GotChunk == last.op = "receive" /\ last.bytes \notin {None, "empty"}
Resumed == last.op = "handle_audio_chunk_resume"
Predicted == Resumed /\ last.bcast # <<>>

\* C1 (as stated): a start_recording sets the sender's flag and zeroes its
\* counter whatever the state before, and the first chunk successfully
\* classified after it is broadcast with chunk_number = 1.
C1_FirstSuccessIsOne ==
    /\ Started => is_recording[last.conn] /\ chunk_count[last.conn] = 0
    /\ (Predicted /\ classified[last.conn] = 1) => last.bcast[1].n = 1

\* C1 (amended): a start_recording sets the sender's flag and zeroes its
\* counter whatever the state before, and the first chunk whose pipeline
\* call returns after it, when successfully classified, is broadcast with
\* chunk_number = 1.
C1_FirstChunkIsOne ==
    /\ Started => is_recording[last.conn] /\ chunk_count[last.conn] = 0
    /\ (Predicted /\ returned[last.conn] = 1) => last.bcast[1].n = 1

\* a start_recording arrived while recording, with chunks already counted
C1_Restarted ==
    /\ Started
    /\ last.was.rec
    /\ last.was.cnt > 0
    /\ chunk_count[last.conn] = 0

\* C2 (as stated): the counter is the number of chunks successfully
\* classified since the last start_recording; the chunk_number of a
\* prediction and the total_chunks of a stop count successes only.
C2_CountsSuccesses ==
    /\ \A c \in Conn : chunk_count[c] = classified[c]
    /\ Predicted => last.bcast[1].n = classified[last.conn]
    /\ Stopped => last.bcast[1].n = classified[last.conn]

\* C2 (amended): the counter is the number of chunks whose pipeline call
\* has returned since the last start_recording, failed classifications
\* included; the chunk_number of a prediction or of a processing_error and
\* the total_chunks of a stop are that number; a chunk whose temp file
\* could not be written does not advance it.
C2_CountsReturns ==
    /\ \A c \in Conn : chunk_count[c] = returned[c]
    /\ Predicted => last.bcast[1].n = returned[last.conn]
    /\ (Resumed /\ last.frames # <<>>) => last.frames[1].n = returned[last.conn]
    /\ Stopped => last.bcast[1].n = returned[last.conn]
    /\ (GotChunk /\ last.io = "raise") =>
           /\ chunk_count[last.conn] = last.was.cnt
           /\ last.frames[1].n = last.was.cnt

\* a failed classification has just advanced the counter
C2_FailureCounted ==
    /\ Resumed
    /\ last.frames # <<>>
    /\ last.io = "ok"
    /\ classified[last.conn] = 0
    /\ chunk_count[last.conn] = 1
    /\ last.frames[1].n = 1

\* the connections attached to the subject of connection c
Attached(c) == {d \in Conn : conn_state[d] = "open" /\ baby_id[d] = baby_id[c]}

\* message ev was put on the channel of every connection attached to the
\* sender's subject, and on no other channel
SentToSubject(c, ev) ==
    \A d \in Conn :
        inbox'[d] = IF d \in Attached(c) THEN Append(inbox[d], ev) ELSE inbox[d]

\* the step left everything but the history record as it was
NothingDone ==
    /\ UNCHANGED <<conn_state, baby_id, client_type, is_recording, chunk_count,
                   pc, job, groups, inbox, files, clock, model>>
    /\ last'.frames = <<>>
    /\ last'.bcast = <<>>

\* C3: a binary chunk received by a connection that is not recording is
\* discarded: no temp file, no pipeline call, no frame or group message to
\* anyone, flag and counter as before.
C3_NotRecordingDiscards ==
    [][(/\ last'.op = "receive"
        /\ last'.bytes \notin {None, "empty"}
        /\ ~is_recording[last'.conn]) => NothingDone]_vars

\* a recorder's chunk was dropped because the recorder is not recording
C3_Dropped ==
    /\ GotChunk
    /\ last.bytes = "webm"
    /\ client_type[last.conn] = "recorder"
    /\ ~is_recording[last.conn]
    /\ model = "loaded"
    /\ pc[last.conn] = "idle"

\* C4: a binary frame from a connection whose client type is not recorder
\* changes nothing and emits nothing; the same frame from a recorder that
\* is recording goes to the pipeline, and a pipeline result without error
\* becomes a prediction_update_broadcast to the group.
C4_RoleGate ==
    [][/\ (/\ last'.op = "receive"
           /\ last'.bytes \notin {None, "empty"}
           /\ client_type[last'.conn] # "recorder") => NothingDone
       /\ (/\ last'.op = "receive"
           /\ last'.bytes \notin {None, "empty"}
           /\ client_type[last'.conn] = "recorder"
           /\ is_recording[last'.conn]
           /\ last'.io = "ok") =>
              /\ pc'[last'.conn] = "await"
              /\ files'[job'[last'.conn].path] = last'.bytes
       /\ (/\ last'.op = "handle_audio_chunk_resume"
           /\ ~HasError(job[last'.conn].result)
           /\ last'.io = "ok") =>
              /\ Len(last'.bcast) = 1
              /\ last'.bcast[1].type = "prediction_update_broadcast"
              /\ SentToSubject(last'.conn, last'.bcast[1])]_vars

\* a dashboard that has itself started a recording sent decodable bytes,
\* and nothing happened
C4_ObserverDropped ==
    /\ GotChunk
    /\ last.bytes = "webm"
    /\ client_type[last.conn] = "dashboard"
    /\ is_recording[last.conn]
    /\ model = "loaded"
    /\ pc[last.conn] = "idle"
    /\ last.frames = <<>>

\* C5: a start_recording from a connection of any client type puts one
\* recording_status_broadcast{started} on the channel of every connection
\* attached to the sender's subject, the sender's included, and on no
\* channel of another subject; each receiving consumer forwards it to its
\* client as recording_status{started}.
C5_StartBroadcast ==
    [][/\ (last'.op = "receive" /\ last'.text = "start_recording") =>
              /\ last'.conn \in Attached(last'.conn)
              /\ Len(last'.bcast) = 1
              /\ last'.bcast[1].type = "recording_status_broadcast"
              /\ last'.bcast[1].status = "started"
              /\ last'.bcast[1].baby = baby_id[last'.conn]
              /\ SentToSubject(last'.conn, last'.bcast[1])
       /\ (/\ last'.op = "deliver"
           /\ Head(inbox[last'.conn]).type = "recording_status_broadcast"
           /\ Head(inbox[last'.conn]).status = "started") =>
              /\ Len(last'.frames) = 1
              /\ last'.frames[1].type = "recording_status"
              /\ last'.frames[1].status = "started"
              /\ last'.frames[1].baby = baby_id[last'.conn]]_vars

\* a dashboard started the recording: the event is on its own channel and
\* on the recorder's, and not on the channel of the other subject's client
C5_ObserverStarted ==
    /\ Started
    /\ client_type[last.conn] = "dashboard"
    /\ \E d \in Conn \ {last.conn} :
           /\ d \in Attached(last.conn)
           /\ client_type[d] = "recorder"
           /\ inbox[d] = last.bcast
    /\ inbox[last.conn] = last.bcast
    /\ \E d \in Conn :
           /\ conn_state[d] = "open"
           /\ baby_id[d] # baby_id[last.conn]
           /\ inbox[d] = <<>>

\* C6 (as stated): a stop_recording clears the recording flag and sends
\* recording_status_broadcast{stopped} to every connection on the subject
\* with total_chunks = the subject's chunk count at that moment, and no
\* chunk of the subject goes to the pipeline between a stop and the next
\* start on that subject.
C6_StopEndsSession ==
    [][/\ (last'.op = "receive" /\ last'.text = "stop_recording") =>
              /\ ~is_recording'[last'.conn]
              /\ Len(last'.bcast) = 1
              /\ last'.bcast[1].type = "recording_status_broadcast"
              /\ last'.bcast[1].status = "stopped"
              /\ last'.bcast[1].n = session[baby_id[last'.conn]].chunks
              /\ SentToSubject(last'.conn, last'.bcast[1])
       /\ (/\ last'.op = "receive"
           /\ last'.bytes \notin {None, "empty"}
           /\ pc'[last'.conn] = "await") =>
              session[baby_id[last'.conn]].recording]_vars

\* C7: a chunk whose classification succeeded, and whose broadcast the
\* channel layer accepted, puts one prediction_update_broadcast on the
\* channel of every connection attached to the subject, the sending
\* recorder's included, carrying the counter after its increment; each
\* receiving consumer forwards it as prediction_update with that number.
C7_PredictionBroadcast ==
    [][/\ (/\ last'.op = "handle_audio_chunk_resume"
           /\ ~HasError(job[last'.conn].result)
           /\ last'.io = "ok") =>
              /\ last'.conn \in Attached(last'.conn)
              /\ Len(last'.bcast) = 1
              /\ last'.frames = <<>>
              /\ last'.bcast[1].type = "prediction_update_broadcast"
              /\ last'.bcast[1].n = chunk_count'[last'.conn]
              /\ chunk_count'[last'.conn] = chunk_count[last'.conn] + 1
              /\ last'.bcast[1].cls = job[last'.conn].result.state
              /\ SentToSubject(last'.conn, last'.bcast[1])
       /\ (/\ last'.op = "deliver"
           /\ Head(inbox[last'.conn]).type = "prediction_update_broadcast") =>
              /\ Len(last'.frames) = 1
              /\ last'.frames[1].type = "prediction_update"
              /\ last'.frames[1].n = Head(inbox[last'.conn]).n
              /\ last'.frames[1].cls = Head(inbox[last'.conn]).cls]_vars

\* a second chunk was classified: its prediction, numbered 2, is on the
\* recorder's own channel and on the dashboard's
C7_Fanned ==
    /\ Predicted
    /\ last.bcast[1].n = 2
    /\ last.bcast[1].cls = "cry"
    /\ inbox[last.conn] = last.bcast
    /\ \E d \in Attached(last.conn) :
           client_type[d] = "dashboard" /\ inbox[d] = last.bcast

\* C8: a chunk given to handle_audio_chunk by a recording recorder ends in
\* exactly one outcome: a processing_error frame to the sender, or a
\* prediction_update_broadcast to the group, also when the write of the
\* temp file or the broadcast raises; nothing is emitted before the
\* pipeline call has returned.
C8_OneOutcome ==
    /\ Resumed =>
           /\ Len(last.frames) + Len(last.bcast) = 1
           /\ \A i \in 1..Len(last.frames) :
                  last.frames[i].type = "processing_error"
           /\ \A i \in 1..Len(last.bcast) :
                  last.bcast[i].type = "prediction_update_broadcast"
    /\ (GotChunk /\ client_type[last.conn] = "recorder" /\ last.was.rec) =>
           \/ /\ pc[last.conn] = "await"
              /\ last.frames = <<>>
              /\ last.bcast = <<>>
           \/ /\ pc[last.conn] = "idle"
              /\ last.bcast = <<>>
              /\ Len(last.frames) = 1
              /\ last.frames[1].type = "processing_error"
    /\ last.op = "process_audio_async" =>
           last.frames = <<>> /\ last.bcast = <<>>

\* the broadcast of a prediction raised: one processing_error, no broadcast
C8_BroadcastRaised ==
    /\ Resumed
    /\ last.io = "raise"
    /\ last.bytes = "webm"
    /\ last.bcast = <<>>
    /\ Len(last.frames) = 1
    /\ classified[last.conn] = 1

\* C9: a chunk whose classification failed (model not loaded, no decoder
\* read it, the model call raised) yields one processing_error frame on
\* the sender's socket and no message on any channel.
C9_ErrorToSenderOnly ==
    [][(/\ last'.op = "handle_audio_chunk_resume"
        /\ HasError(job[last'.conn].result)) =>
           /\ inbox' = inbox
           /\ last'.bcast = <<>>
           /\ Len(last'.frames) = 1
           /\ last'.frames[1].type = "processing_error"
           /\ last'.frames[1].cls = job[last'.conn].result.error]_vars

\* the model call raised on a chunk while a dashboard was attached to the
\* subject: it has nothing on its channel
C9_FailedWithObserver ==
    /\ Resumed
    /\ last.bytes = "odd"
    /\ model = "loaded"
    /\ last.frames # <<>>
    /\ \E d \in Attached(last.conn) \ {last.conn} : inbox[d] = <<>>

\* C10 (as stated): a request_status is answered to the sender only, with
\* the recording flag and chunk count of the subject, the state every
\* connection on the subject shares, and changes no state.
C10_StatusOfSubject ==
    Asked =>
        /\ last.frames =
               <<Msg("current_status", baby_id[last.conn],
                     JsonBool(session[baby_id[last.conn]].recording),
                     session[baby_id[last.conn]].chunks,
                     client_type[last.conn], None, None)>>
        /\ last.bcast = <<>>
        /\ is_recording[last.conn] = last.was.rec
        /\ chunk_count[last.conn] = last.was.cnt

\* C11 (as stated): flag and counter belong to the subject: a connection
\* that attaches when no other connection is attached to its subject finds
\* the recording flag and chunk count the earlier connections left.
C11_SessionSurvives ==
    (last.op = "connect" /\ Attached(last.conn) = {last.conn}) =>
        /\ is_recording[last.conn] = session[baby_id[last.conn]].recording
        /\ chunk_count[last.conn] = session[baby_id[last.conn]].chunks

\* the step changed no connection's state and no channel
StateUntouched ==
    UNCHANGED <<conn_state, baby_id, client_type, is_recording, chunk_count,
                pc, job, groups, inbox, files, clock, model>>

\* C12: a ping is answered with one pong frame on the sender's socket;
\* no message goes to any channel, and flag, counter and the attached
\* connections are as before.
C12_PingPong ==
    [][(last'.op = "receive" /\ last'.text = "ping") =>
           /\ Len(last'.frames) = 1
           /\ last'.frames[1].type = "pong"
           /\ last'.bcast = <<>>
           /\ StateUntouched]_vars

\* a recording recorder pinged while a peer was attached: the peer has
\* nothing on its channel
C12_Ponged ==
    /\ last.op = "receive"
    /\ last.text = "ping"
    /\ last.frames # <<>>
    /\ is_recording[last.conn]
    /\ chunk_count[last.conn] > 0
    /\ \E d \in Attached(last.conn) \ {last.conn} : inbox[d] = <<>>

C14_UnknownTypeError ==
    (last.op = "receive" /\ last.text \in {"bogus", "notype"}) =>
        /\ Len(last.frames) = 1
        /\ last.frames[1].type = "error"
        /\ last.bcast = <<>>
        /\ is_recording[last.conn] = last.was.rec
        /\ chunk_count[last.conn] = last.was.cnt

\* the connections open on subject b
OpenOn(b) == {d \in Conn : conn_state[d] = "open" /\ baby_id[d] = b}

\* C15: a connect registers the connection in its subject's group, writes
\* one connection_status frame to the connection itself, and puts one
\* client_connected message on the channel of every connection open on
\* the subject and on no channel of another subject; each other
\* connection's consumer forwards it as client_status{connected}, the
\* joining connection's consumer forwards nothing for its own message.
C15_JoinNotice ==
    [][/\ last'.op = "connect" =>
              /\ last'.conn \in groups'[baby_id'[last'.conn]]
              /\ conn_state'[last'.conn] = "open"
              /\ Len(last'.frames) = 1
              /\ last'.frames[1].type = "connection_status"
              /\ last'.frames[1].status = "connected"
              /\ Len(last'.bcast) = 1
              /\ last'.bcast[1].type = "client_connected"
              /\ last'.bcast[1].ch = last'.conn
              /\ \A d \in Conn :
                     inbox'[d] =
                         IF d \in OpenOn(baby_id'[last'.conn]) \cup {last'.conn}
                         THEN Append(inbox[d], last'.bcast[1])
                         ELSE inbox[d]
       /\ (/\ last'.op = "deliver"
           /\ Head(inbox[last'.conn]).type = "client_connected") =>
              IF Head(inbox[last'.conn]).ch = last'.conn
              THEN last'.frames = <<>>
              ELSE /\ Len(last'.frames) = 1
                   /\ last'.frames[1].type = "client_status"
                   /\ last'.frames[1].status = "connected"
                   /\ last'.frames[1].client = Head(inbox[last'.conn]).client
      ]_vars

\* the recorder was told that a dashboard joined its subject, while the
\* dashboard still has its own join message to take
C15_PeerNoticed ==
    /\ last.op = "deliver"
    /\ client_type[last.conn] = "recorder"
    /\ last.frames # <<>>
    /\ last.frames[1].type = "client_status"
    /\ last.frames[1].status = "connected"
    /\ last.frames[1].client = "dashboard"
    /\ \E d \in Attached(last.conn) \ {last.conn} :
           /\ inbox[d] # <<>>
           /\ Head(inbox[d]).type = "client_connected"
           /\ Head(inbox[d]).ch = d

\* C16: a disconnect puts one client_disconnected message on the channel
\* of every other connection open on the subject and takes the connection
\* out of the group in the same handler; each peer's consumer forwards the
\* message as client_status{disconnected}; nothing is written to a closed
\* connection, it is in no group, and no later message reaches its channel.
C16_LeaveNotice ==
    [][/\ last'.op = "disconnect" =>
              /\ conn_state'[last'.conn] = "closed"
              /\ last'.frames = <<>>
              /\ Len(last'.bcast) = 1
              /\ last'.bcast[1].type = "client_disconnected"
              /\ \A d \in Conn \ {last'.conn} :
                     inbox'[d] = IF d \in Attached(last'.conn)
                                 THEN Append(inbox[d], last'.bcast[1])
                                 ELSE inbox[d]
       /\ (/\ last'.op = "deliver"
           /\ Head(inbox[last'.conn]).type = "client_disconnected") =>
              /\ Len(last'.frames) = 1
              /\ last'.frames[1].type = "client_status"
              /\ last'.frames[1].status = "disconnected"
       /\ \A c \in Conn :
              /\ conn_state'[c] = "closed" =>
                     \A b \in Subjects : c \notin groups'[b]
              /\ conn_state[c] = "closed" =>
                     /\ inbox'[c] = inbox[c]
                     /\ last'.conn # c
      ]_vars

\* after the recorder left, a peer on its subject started a recording:
\* the event is on the peer's channel and not on the recorder's
C16_GoneUnreached ==
    /\ Started
    /\ inbox[last.conn] = last.bcast
    /\ \E c \in Conn :
           /\ conn_state[c] = "closed"
           /\ client_type[c] = "recorder"
           /\ baby_id[c] = baby_id[last.conn]
           /\ \A i \in 1..Len(inbox[c]) :
                  inbox[c][i].type = "client_disconnected"

\* C17: connect() sets the client type to recorder, dashboard or unknown
\* (c1 asks for recorder, c3 for dashboard, c2 for dashboard or nothing),
\* and no later step of any kind changes it.
C17_RoleFixed ==
    [][\A c \in Conn :
           /\ conn_state[c] # "init" => client_type'[c] = client_type[c]
           /\ conn_state'[c] = "init" => client_type'[c] = None
           /\ conn_state'[c] # "init" =>
                  /\ client_type'[c] \in {"recorder", "dashboard", "unknown"}
                  /\ c = "c1" => client_type'[c] = "recorder"
                  /\ c = "c2" => client_type'[c] \in {"dashboard", "unknown"}
                  /\ c = "c3" => client_type'[c] = "dashboard"
      ]_vars

\* a client that gave no type has started a recording and sent a chunk;
\* it is still of unknown type
C17_StillUnknown ==
    /\ GotChunk
    /\ client_type[last.conn] = "unknown"
    /\ is_recording[last.conn]

\* the step taken last failed: a text frame that is no JSON object, a temp
\* file that could not be written, a classification that returned an
\* error, or a broadcast that raised
Failed ==
    \/ last.op = "receive" /\ last.text \in {"malformed", "list"}
    \/ GotChunk /\ last.io = "raise"
    \/ Resumed /\ last.frames # <<>>

\* C18: after a failed step the connection is open, in its group, idle,
\* and its recording flag is as before the step; the frame it sends next
\* is handled as on a connection that never failed: a request_status is
\* answered with its flag and counter, a start_recording starts, and a
\* chunk from a recording recorder goes to the pipeline.
C18_StaysServiceable ==
    [][/\ Failed' =>
              /\ conn_state'[last'.conn] = "open"
              /\ last'.conn \in groups'[baby_id'[last'.conn]]
              /\ pc'[last'.conn] = "idle"
              /\ is_recording'[last'.conn] = is_recording[last'.conn]
       /\ (Failed /\ last'.conn = last.conn /\ last'.op = "receive") =>
              /\ last'.text = "request_status" =>
                     last'.frames = <<current_status(last.conn)>>
              /\ last'.text = "start_recording" =>
                     /\ is_recording'[last.conn]
                     /\ chunk_count'[last.conn] = 0
                     /\ Len(last'.bcast) = 1
              /\ (/\ last'.bytes \notin {None, "empty"}
                  /\ last'.io = "ok"
                  /\ client_type[last.conn] = "recorder"
                  /\ is_recording[last.conn]) =>
                     /\ pc'[last.conn] = "await"
                     /\ files'[job'[last.conn].path] = last'.bytes
      ]_vars

\* a chunk was classified and broadcast on a connection that had a failed
\* classification earlier in the same recording
C18_Recovered ==
    /\ Predicted
    /\ returned[last.conn] > classified[last.conn]
    /\ is_recording[last.conn]
    /\ conn_state[last.conn] = "open"

\* the classification of the bytes the worker thread will read fails
WillFail(c) ==
    \/ model = None
    \/ preprocess_audio(files[job[c].path]) = NoSpectrogram
    \/ ModelRaises(files[job[c].path])

Causes == {"Model not loaded", "Failed to preprocess audio", "model call raised"}

\* C19 (as stated): the classification call always returns: with the
\* model missing, no decoder reading the bytes, or the model call raising,
\* it returns an error value with a cause; the call changes no flag and no
\* counter, and the handling of the failed chunk leaves the sender's flag
\* and counter as they were.
C19_FailureKeepsState ==
    [][/\ last'.op = "process_audio_async" =>
              /\ pc'[last'.conn] = "ready"
              /\ WillFail(last'.conn) <=> HasError(job'[last'.conn].result)
              /\ WillFail(last'.conn) =>
                     /\ job'[last'.conn].result.error \in Causes
                     /\ job'[last'.conn].result.state = "unknown"
              /\ UNCHANGED <<is_recording, chunk_count, conn_state, groups,
                             inbox>>
       /\ (/\ last'.op = "handle_audio_chunk_resume"
           /\ HasError(job[last'.conn].result)) =>
              UNCHANGED <<is_recording, chunk_count>>
      ]_vars

\* C19 (amended): the classification call always returns: with the model
\* missing, no decoder reading the bytes, or the model call raising, it
\* returns an error value with a cause; the call changes no flag and no
\* counter; the handling of the failed chunk leaves every flag and every
\* other connection's counter as they were and advances the sender's
\* counter by one.
C19_FailureCountsChunk ==
    [][/\ last'.op = "process_audio_async" =>
              /\ pc'[last'.conn] = "ready"
              /\ WillFail(last'.conn) <=> HasError(job'[last'.conn].result)
              /\ WillFail(last'.conn) =>
                     /\ job'[last'.conn].result.error \in Causes
                     /\ job'[last'.conn].result.state = "unknown"
              /\ UNCHANGED <<is_recording, chunk_count, conn_state, groups,
                             inbox>>
       /\ (/\ last'.op = "handle_audio_chunk_resume"
           /\ HasError(job[last'.conn].result)) =>
              /\ UNCHANGED is_recording
              /\ chunk_count' = [chunk_count EXCEPT ![last'.conn] = @ + 1]
      ]_vars

\* the model call raised on a recording recorder's chunk: the error frame
\* carries the cause, the flag is set, the counter is one more than before
C19_InferenceRaised ==
    /\ Resumed
    /\ last.bytes = "odd"
    /\ model = "loaded"
    /\ last.frames # <<>>
    /\ last.frames[1].cls = "model call raised"
    /\ is_recording[last.conn]
    /\ chunk_count[last.conn] = last.was.cnt + 1

\* the fixed label set
Labels == {class_names[i] : i \in 1..Len(class_names)}

\* C20: a result without error has one probability per label of the fixed
\* set and no other key, its state is a label of the set at which the
\* probability is maximal, and its confidence is the probability at that
\* label; a result with an error has a state outside the set and no
\* probabilities.
C20_LabelIsArgMax ==
    \A c \in Conn :
        pc[c] = "ready" =>
            LET r == job[c].result
                P == r.probabilities
            IN IF HasError(r)
               THEN /\ r.state \notin Labels
                    /\ P = <<>>
                    /\ r.confidence = 0
               ELSE /\ {P[i][1] : i \in 1..Len(P)} = Labels
                    /\ Len(P) = Cardinality(Labels)
                    /\ r.state \in Labels
                    /\ \E i \in 1..Len(P) :
                           /\ P[i][1] = r.state
                           /\ P[i][2] = r.confidence
                    /\ \A j \in 1..Len(P) : P[j][2] <= r.confidence

\* bytes only the third decoder reads were classified, two labels tying
\* for the maximum: the first of them is the state
C20_TieClassified ==
    \E c \in Conn :
        /\ pc[c] = "ready"
        /\ job[c].read = "wav"
        /\ job[c].result.state = "noise"
        /\ job[c].result.confidence > 0
        /\ \E i \in 1..Len(job[c].result.probabilities) :
               /\ job[c].result.probabilities[i][1] = "silence"
               /\ job[c].result.probabilities[i][2] = job[c].result.confidence

\* the run of preprocess_audio has returned
Decoded == decode.stage = "done"

\* C21: the first and the third tier hand on exactly Samples samples: a
\* shorter waveform is kept as a prefix and filled with zeros after it, a
\* longer one is cut to its first Samples samples, one of that length is
\* handed on as it is, and normalising the result again changes nothing.
C21_ExactLength ==
    (Decoded /\ decode.spectrogram.tier \in {1, 3}) =>
        /\ decode.waveform = normalize(decode.wave)
        /\ Len(decode.waveform) = Samples
        /\ \A i \in 1..Samples :
               decode.waveform[i] =
                   IF i <= Len(decode.wave) THEN decode.wave[i] ELSE 0
        /\ Len(decode.wave) = Samples => decode.waveform = decode.wave
        /\ normalize(decode.waveform) = decode.waveform

\* the third tier cut a waveform that is too long and ends in a set sample
C21_Cut ==
    /\ Decoded
    /\ decode.spectrogram.tier = 3
    /\ Len(decode.wave) > Samples
    /\ decode.wave[Len(decode.wave)] = 1
    /\ decode.wave[1] = 1
    /\ decode.waveform = SubSeq(decode.wave, 1, Samples)

\* tier t fails on the file of this run
TierFails(t) ==
    CASE t = 1 -> preprocess_audio_with_librosa(decode.content) = NoSpectrogram
      [] t = 2 -> preprocess_audio_tensorflow(decode.content) = NoSpectrogram
      [] t = 3 -> ~WavfileReads(decode.content)

\* C22: the tiers run in the order 1, 2, 3; every tier tried but the last
\* one tried has failed; the run ends at the first tier that succeeds,
\* with that tier's spectrogram, and ends without one only after all three
\* have failed; the result is the one predict() is given.
C22_TierOrder ==
    /\ decode.tried = SubSeq(<<1, 2, 3>>, 1, Len(decode.tried))
    /\ \A i \in 1..(Len(decode.tried) - 1) : TierFails(decode.tried[i])
    /\ decode.stage \notin {"idle", "done"} =>
           /\ \A i \in 1..Len(decode.tried) : TierFails(decode.tried[i])
           /\ decode.spectrogram = NoSpectrogram
    /\ Decoded =>
           /\ decode.tried # <<>>
           /\ decode.spectrogram = preprocess_audio(decode.content)
           /\ IF decode.spectrogram = NoSpectrogram
              THEN /\ decode.tried = <<1, 2, 3>>
                   /\ \A t \in 1..3 : TierFails(t)
              ELSE /\ ~TierFails(decode.tried[Len(decode.tried)])
                   /\ decode.spectrogram.tier = decode.tried[Len(decode.tried)]

\* a file only scipy reads: the run went through all three tiers and the
\* third produced the spectrogram
C22_ThirdTier ==
    /\ Decoded
    /\ decode.tried = <<1, 2, 3>>
    /\ decode.spectrogram = Spectrogram(3, "wav")

\* C23: on one connection receive() is given the frames in the order the
\* client sent them, and only while no chunk of the connection is in the
\* pipeline; a chunk the client sent after a start_recording and before
\* the next stop_recording is written and handed to the pipeline, a chunk
\* sent after a stop_recording is dropped.
C23_ArrivalOrder ==
    [][\A c \in Conn :
           Len(wire'[c].queue) < Len(wire[c].queue) =>
               /\ wire'[c].queue = Tail(wire[c].queue)
               /\ pc[c] = "idle"
               /\ last'.op = "receive"
               /\ last'.conn = c
               /\ last'.text = Head(wire[c].queue).text
               /\ last'.bytes = Head(wire[c].queue).bytes
               /\ Head(wire[c].queue).bytes # None =>
                      IF Head(wire[c].queue).armed
                      THEN /\ pc'[c] = "await"
                           /\ files'[job'[c].path] = Head(wire[c].queue).bytes
                      ELSE /\ pc'[c] = "idle"
                           /\ files' = files
                           /\ last'.frames = <<>>
      ]_vars

\* a chunk sent before a stop went to the pipeline while the stop and a
\* chunk sent after it were waiting behind it
C23_StopWaits ==
    /\ GotChunk
    /\ pc[last.conn] = "await"
    /\ Len(wire[last.conn].queue) = 2
    /\ wire[last.conn].queue[1].text = "stop_recording"
    /\ wire[last.conn].queue[2].bytes = "webm"
    /\ ~wire[last.conn].queue[2].armed

\* the connections in a fixed order
ConnSeq == <<"c1", "c2", "c3">>

\* chunks classified on subject b by its connections since their starts
ClassifiedOn(b) ==
    Sum([i \in 1..Len(ConnSeq) |->
            IF baby_id[ConnSeq[i]] = b THEN classified[ConnSeq[i]] ELSE 0])

C25_NoLostCount ==
    (/\ Predicted
     /\ ClassifiedOn(baby_id[last.conn]) = session[baby_id[last.conn]].chunks) =>
        last.bcast[1].n = ClassifiedOn(baby_id[last.conn])

\* C26 (as stated): the bytes the pipeline call of a chunk read are the
\* bytes of that chunk, whatever another recorder of the subject wrote or
\* removed meanwhile, and the temp file of a chunk is gone once its
\* handling has finished.
C26_OwnBytes ==
    /\ \A c \in Conn : pc[c] = "ready" => job[c].read = job[c].buf
    /\ (\A c \in Conn : pc[c] = "idle") => \A p \in Paths : files[p] = NoFile

\* the SensorData rows of AudioSession sid
RecordsOf(sid) == {i \in 1..Len(db.SensorData) : db.SensorData[i] = sid}

\* C27 (as stated): whatever the interleaving of the calls for a baby,
\* the total_chunks of an AudioSession is the number of SensorData rows
\* stored for it, and a call answered 400 or 404 has read and written no
\* row.
C27_CountMatchesRecords ==
    /\ \A sid \in 1..Len(db.AudioSession) :
           db.AudioSession[sid] = Cardinality(RecordsOf(sid))
    /\ \A r \in Req :
           requests[r].status \in {400, 404} => requests[r].sid = 0

====
